---- MODULE Spec2Model ----
(***************************************************************************)
(* A model of key-distance.py: one run of keypoint_optimize.  The run      *)
(* fetches an m x n matrix of travel durations from the mapping provider   *)
(* (one batched request, or one request per pair in transit mode), every   *)
(* request wrapped by retry(3, 2.0), and reduces the matrix to one         *)
(* weighted score per option.                                              *)
(*                                                                         *)
(* Addresses are opaque: option a is the a-th line of the options file,    *)
(* keyspot b the b-th line of the keypoints file; the options are distinct.*)
(* Floating point numbers are modelled exactly: a duration is an integer   *)
(* number of seconds and a score is a fraction num/den; a fraction with    *)
(* den = 0 is what numpy's division by zero yields (nan or inf), which is  *)
(* a value and not an exception.                                           *)
(***************************************************************************)
EXTENDS Integers, Sequences, FiniteSets, TLC

\* Bounds of the model.
MaxM == 2
MaxN == 2
MaxCells == 4
MaxFail == 3
MaxWeight == 2
MaxUnusual == 1

\* @retry(3, 2.0)
RetryTimes == 3
RetrySleep == 2

VARIABLES
    options,    \* the origins: <<1, ..., m>>
    keyspots,   \* the destinations: <<1, ..., n>>
    mode,       \* args.mode
    verbose,    \* args.verbose
    weights,    \* numpy.array(weights); read at line 130 only
    pc,         \* where the run is
    i,          \* retry.wrapper: the loop variable i
    tries,      \* retry.wrapper: calls of f made by the current wrapper call
    warned,     \* retry.wrapper: request_log.warn calls of the current wrapper call
    sleeps,     \* retry.wrapper: the time.sleep arguments of the wrapper call in progress
    errs,       \* retry.wrapper: the exceptions raised by f in the current wrapper call
    ti, tj,     \* load_distances_transit: the loop variables i, j
    ret,        \* what transit_distance returned
    result,     \* load_pairwise_distances: result
    distances,  \* the matrix being filled
    scores,     \* what keypoint_optimize returns
    outcome,    \* "running", "returned" or "raised"
    error,      \* the exception that ended the run
    events,     \* everything the run did, in order
    log,        \* the records the logging module emitted
    failures,   \* failed attempts so far
    unusual     \* null and boolean durations answered so far

vars == <<options, keyspots, mode, verbose, weights, pc, i, tries, warned,
          sleeps, errs, ti, tj, ret, result, distances, scores, outcome,
          error, events, log, failures, unusual>>

inputs == <<options, keyspots, mode, verbose>>
wrapperVars == <<i, tries, warned, sleeps, errs>>

Modes == {"driving", "transit", "walking"}

\* The provider's travel time from option a to keyspot b, in seconds.
TravelSeconds(a, b) == 900 * (8 * (a - 1) + b)

Zeros(m, n) == [a \in 1..m |-> [b \in 1..n |-> 0]]

NoResult == [hasRows |-> FALSE, rows |-> <<>>]
NoRet == [kind |-> "none", value |-> 0]

\* The float nan, as a cell of the matrix and as a term of a sum.
NaN == -1

----------------------------------------------------------------------------
\* retry (lines 58-72)

\* Variant of the loop bound: one iteration more.
LoopRangeLong == RetryTimes

\* for i in range(times-1): the attempts made inside the loop
LoopRange == RetryTimes - 1

\* Variant of the back-off bound: the exponent counted from 1.
UpToFromOne(k) == (2 ^ (k + 1)) * RetrySleep

\* up_to = 2**i * sleep
UpTo(k) == (2 ^ k) * RetrySleep

\* request_log.info('GET %s', url); urllib.urlopen(url).read()
AttemptEvents(req, ok, val) ==
    << [type |-> "info", req |-> req, ok |-> TRUE, val |-> 0],
       [type |-> "send", req |-> req, ok |-> TRUE, val |-> 0],
       [type |-> "recv", req |-> req, ok |-> ok, val |-> val] >>

\* Variant of the back-off: the sleep taken before the warning is logged.
SleepThenWarn(req) ==
    << [type |-> "sleep", req |-> req, ok |-> TRUE, val |-> 0],
       [type |-> "warn", req |-> req, ok |-> TRUE, val |-> 0] >>

\* request_log.warn(e); time.sleep(actual)
BackoffEvents(req) ==
    << [type |-> "warn", req |-> req, ok |-> TRUE, val |-> 0],
       [type |-> "sleep", req |-> req, ok |-> TRUE, val |-> 0] >>

\* logging.basicConfig(level=logging.INFO) or logging.basicConfig()
InfoEmitted == IF verbose THEN <<"INFO">> ELSE <<>>

WarnEmitted == <<"WARNING">>

\* f(*args, **kwargs) returned: the wrapper returns
WrapperReturn(req, val) ==
    /\ events' = events \o AttemptEvents(req, TRUE, val)
    /\ log' = log \o InfoEmitted
    /\ tries' = tries + 1
    /\ sleeps' = <<>>
    /\ UNCHANGED <<i, warned, errs, failures>>

\* f raised err inside the loop: warn, sleep random.uniform(0, up_to), next
\* iteration (the sleep is modelled in whole seconds)
WrapperCatch(req, err) ==
    /\ i < LoopRange
    /\ events' = events \o AttemptEvents(req, FALSE, 0) \o BackoffEvents(req)
    /\ log' = log \o InfoEmitted \o WarnEmitted
    /\ tries' = tries + 1
    /\ warned' = warned + 1
    /\ \E actual \in 0..UpTo(i) : sleeps' = Append(sleeps, actual)
    /\ errs' = Append(errs, err)
    /\ i' = i + 1
    /\ failures' = failures + 1

\* the exception the last call of f (line 70) lets through
Propagated(err) == err

\* f raised err in the call after the loop: the exception propagates
WrapperRaise(req, err) ==
    /\ i >= LoopRange
    /\ events' = events \o AttemptEvents(req, FALSE, 0)
    /\ log' = log \o InfoEmitted
    /\ tries' = tries + 1
    /\ errs' = Append(errs, err)
    /\ failures' = failures + 1
    /\ error' = Propagated(err)
    /\ outcome' = "raised"
    /\ pc' = "aborted"
    /\ sleeps' = <<>>
    /\ UNCHANGED <<i, warned>>

\* What get_response raises: urlopen's IOError for the transport and
\* simplejson's JSONDecodeError for a body that is not JSON.
BatchErrors == {"IOError", "JSONDecodeError"}

\* What transit_distance raises: the same two, IndexError for a body whose
\* 'routes' or 'legs' list is empty (result['routes'][0]['legs'][0]), and
\* KeyError for a body without 'routes', 'legs', 'duration' or 'value'.
TransitErrors == {"IOError", "JSONDecodeError", "KeyError", "IndexError"}

\* a new call of a retry-wrapped function
WrapperEnter ==
    /\ i' = 0
    /\ tries' = 0
    /\ warned' = 0
    /\ sleeps' = <<>>
    /\ errs' = <<>>

----------------------------------------------------------------------------
Init ==
    /\ \E m \in 1..MaxM, n \in 1..MaxN :
          /\ m * n <= MaxCells
          /\ options = [a \in 1..m |-> a]
          /\ keyspots = [b \in 1..n |-> b]
    /\ mode \in Modes
    /\ verbose \in BOOLEAN
    /\ weights = <<>>
    /\ pc = "start"
    /\ i = 0
    /\ tries = 0
    /\ warned = 0
    /\ sleeps = <<>>
    /\ errs = <<>>
    /\ ti = 1
    /\ tj = 1
    /\ ret = NoRet
    /\ result = NoResult
    /\ distances = <<>>
    /\ scores = <<>>
    /\ outcome = "running"
    /\ error = "none"
    /\ events = <<>>
    /\ log = <<>>
    /\ failures = 0
    /\ unusual = 0

----------------------------------------------------------------------------
\* The decoded bodies the provider may answer a distance matrix request with.
\* A body is a dict with or without 'rows'; a row is a dict with or without
\* 'elements'; an element carries a numeric duration value ("num"), lacks
\* 'duration' or 'value' ("missing"), carries a non-numeric string ("str") or
\* carries null ("null").

El(kind, v) == [kind |-> kind, value |-> v]

\* What the float array makes of a value assigned to a cell (lines 94, 121): a
\* number is kept, a numeric string is parsed, true and false become 1.0 and
\* 0.0, None becomes nan; any other string raises ValueError.
Converts(r) == r.kind # "str"

Converted(r) == IF r.kind = "null" THEN NaN ELSE r.value

Row(a, c) ==
    [hasElements |-> TRUE,
     elements |-> [b \in 1..c |-> El("num", TravelSeconds(a, b))]]

NoElements == [hasElements |-> FALSE, elements |-> <<>>]

Uniform(r, c) == [hasRows |-> TRUE, rows |-> [a \in 1..r |-> Row(a, c)]]

WellFormed(m, n) == Uniform(m, n)

BadRows(m, n) ==
    { [WellFormed(m, n) EXCEPT !.rows[k] = row] :
        k \in 1..m, row \in {NoElements} }
    \cup { [WellFormed(m, n) EXCEPT !.rows[k] = Row(k, c)] :
        k \in 1..m, c \in {n - 1, n + 1} }

BadCells(m, n) ==
    { [WellFormed(m, n) EXCEPT !.rows[k].elements[l] = El(kind, 0)] :
        k \in 1..m, l \in 1..n, kind \in {"missing", "str", "null"} }

BatchResponses(m, n) ==
    { Uniform(r, c) : r \in (m - 1)..(m + 1), c \in (n - 1)..(n + 1) }
    \cup BadRows(m, n) \cup BadCells(m, n) \cup {NoResult}

\* load_pairwise_distances, lines 117-125: the first exception the two loops
\* raise, scanning the rows and their elements in order ("none": no exception).
CellError(el, a, b, m, n) ==
    IF el.kind = "missing" THEN "KeyError"
    ELSE IF a > m \/ b > n THEN "IndexError"
    ELSE IF ~Converts(el) THEN "ValueError(convert)"
    ELSE "none"

RECURSIVE ScanRow(_, _, _, _, _)
ScanRow(row, a, b, m, n) ==
    IF b > Len(row.elements) THEN "none"
    ELSE LET e == CellError(row.elements[b], a, b, m, n)
         IN  IF e # "none" THEN e ELSE ScanRow(row, a, b + 1, m, n)

RECURSIVE ScanRows(_, _, _, _)
ScanRows(res, a, m, n) ==
    IF a > Len(res.rows) THEN "none"
    ELSE IF ~res.rows[a].hasElements THEN "KeyError"
    ELSE LET e == ScanRow(res.rows[a], a, 1, m, n)
         IN  IF e # "none" THEN e ELSE ScanRows(res, a + 1, m, n)

ParseError(res, m, n) ==
    IF ~res.hasRows THEN "KeyError" ELSE ScanRows(res, 1, m, n)

\* Variant of the inner loop: the last element of every row skipped.
ParsedCellShort(res, a, b) ==
    IF a <= Len(res.rows) /\ b < Len(res.rows[a].elements)
    THEN Converted(res.rows[a].elements[b])
    ELSE 0

\* the cell the loops assign, or the zero numpy.zeros put there
ParsedCell(res, a, b) ==
    IF a <= Len(res.rows) /\ b <= Len(res.rows[a].elements)
    THEN Converted(res.rows[a].elements[b])
    ELSE 0

Parsed(res, m, n) == [a \in 1..m |-> [b \in 1..n |-> ParsedCell(res, a, b)]]

----------------------------------------------------------------------------
\* keypoint_optimize, lines 130-131

RECURSIVE SumTo(_, _)
SumTo(f, k) == IF k = 0 THEN 0 ELSE f[k] + SumTo(f, k - 1)

\* weights.sum()
Sum(w) == SumTo(w, Len(w))

\* durations.dot(weights), one row: nan as soon as one cell is nan
Dot(row, w) ==
    IF \E b \in 1..Len(w) : row[b] = NaN
    THEN NaN
    ELSE SumTo([b \in 1..Len(w) |-> row[b] * w[b]], Len(w))

\* a float as a fraction; nan is 0/0
Float(x) == IF x = NaN THEN [num |-> 0, den |-> 0] ELSE [num |-> x, den |-> 1]

\* x / k on floats: dividing by zero gives nan or inf (den = 0), no exception
Div(x, k) == [num |-> x.num, den |-> x.den * k]

\* Variant of the score: seconds turned into minutes, not hours.
ScoreMinutes(row, w) == Div(Div(Float(Dot(row, w)), 60), Sum(w))

\* weighted/60/60/weights.sum()
Score(row, w) == Div(Div(Div(Float(Dot(row, w)), 60), 60), Sum(w))

\* the weight vectors a caller may pass: every vector of the right length,
\* and one of each wrong length
WeightVectors(n) ==
    [1..n -> 0..MaxWeight]
    \cup UNION { [1..k -> {MaxWeight}] : k \in (0..(n + 1)) \ {n} }

----------------------------------------------------------------------------
\* load_pairwise_distances, lines 99-103: the strategy is chosen by the mode
LoadPairwiseDistances ==
    /\ pc = "start"
    /\ IF mode = "transit"
       THEN /\ pc' = "transit_distance"
            /\ distances' = Zeros(Len(options), Len(keyspots))
       ELSE /\ pc' = "get_response"
            /\ UNCHANGED distances
    /\ ti' = 1
    /\ tj' = 1
    /\ WrapperEnter
    /\ UNCHANGED <<inputs, weights, ret, result, scores, outcome, error,
                   events, log, failures, unusual>>

\* one iteration of retry.wrapper around get_response (lines 103-115)
GetResponse ==
    /\ pc = "get_response"
    /\ \/ /\ \E resp \in BatchResponses(Len(options), Len(keyspots)) :
                result' = resp
          /\ WrapperReturn(<<0, 0>>, 0)
          /\ pc' = "parse"
          /\ UNCHANGED <<outcome, error>>
       \/ /\ failures < MaxFail
          /\ \E err \in BatchErrors :
                \/ /\ WrapperCatch(<<0, 0>>, err)
                   /\ UNCHANGED <<pc, outcome, error>>
                \/ WrapperRaise(<<0, 0>>, err)
          /\ UNCHANGED result
    /\ UNCHANGED <<inputs, weights, ti, tj, ret, distances, scores, unusual>>

\* load_pairwise_distances, lines 117-125
ParseResponse ==
    /\ pc = "parse"
    /\ LET err == ParseError(result, Len(options), Len(keyspots))
       IN  IF err = "none"
           THEN /\ distances' = Parsed(result, Len(options), Len(keyspots))
                /\ pc' = "dot"
                /\ UNCHANGED <<events, outcome, error>>
           ELSE /\ events' = Append(events,
                        [type |-> "pprint", req |-> <<0, 0>>, ok |-> TRUE, val |-> 0])
                /\ error' = err
                /\ outcome' = "raised"
                /\ pc' = "aborted"
                /\ UNCHANGED distances
    /\ WrapperEnter
    /\ UNCHANGED <<inputs, weights, ti, tj, ret, result, scores, log, failures, unusual>>

\* Variant of the two loops: the destinations in the outer loop.
NextPairColumns(a, b, m, n) == IF a < m THEN <<a + 1, b>> ELSE <<1, b + 1>>

\* for i, orig in enumerate(origins): for j, dest in enumerate(destinations):
\* the pair after (a, b), and whether (a, b) is the last one
NextPair(a, b, m, n) == IF b < n THEN <<a, b + 1>> ELSE <<a + 1, 1>>

LastPair(a, b, m, n) == a = m /\ b = n

\* What leg['duration']['value'] may be in a decoded body (line 84): any JSON
\* value.  A number, a string that spells the number, a string that spells
\* no number, true or false, null.
Durations(a, b) ==
    {El("num", TravelSeconds(a, b)), El("numstr", TravelSeconds(a, b)),
     El("str", 0), El("bool", 1), El("bool", 0), El("null", 0)}

IsUnusual(r) == r.kind \in {"bool", "null"}

\* one iteration of retry.wrapper around transit_distance (lines 74-84).
\* A run has up to MaxFail failed attempts and up to MaxUnusual null and
\* boolean durations, in any order.
TransitDistance ==
    /\ pc = "transit_distance"
    /\ \/ /\ \E r \in Durations(ti, tj) :
                /\ IsUnusual(r) => unusual < MaxUnusual
                /\ ret' = r
                /\ unusual' = IF IsUnusual(r) THEN unusual + 1 ELSE unusual
                /\ WrapperReturn(<<ti, tj>>, IF Converts(r) THEN Converted(r) ELSE 0)
          /\ pc' = "assign"
          /\ UNCHANGED <<outcome, error>>
       \/ /\ failures < MaxFail
          /\ \E err \in TransitErrors :
                \/ /\ WrapperCatch(<<ti, tj>>, err)
                   /\ UNCHANGED <<pc, outcome, error>>
                \/ WrapperRaise(<<ti, tj>>, err)
          /\ UNCHANGED <<ret, unusual>>
    /\ UNCHANGED <<inputs, weights, ti, tj, result, distances, scores>>

\* load_distances_transit, lines 92-96: distances[i,j] = ..., next pair
AssignCell ==
    /\ pc = "assign"
    /\ IF ~Converts(ret)
       THEN /\ error' = "ValueError(convert)"
            /\ outcome' = "raised"
            /\ pc' = "aborted"
            /\ UNCHANGED <<distances, ti, tj>>
       ELSE /\ distances' = [distances EXCEPT ![ti][tj] = Converted(ret)]
            /\ IF LastPair(ti, tj, Len(options), Len(keyspots))
               THEN ti' = ti /\ tj' = tj /\ pc' = "dot"
               ELSE /\ ti' = NextPair(ti, tj, Len(options), Len(keyspots))[1]
                    /\ tj' = NextPair(ti, tj, Len(options), Len(keyspots))[2]
                    /\ pc' = "transit_distance"
            /\ UNCHANGED <<outcome, error>>
    /\ ret' = NoRet
    /\ WrapperEnter
    /\ UNCHANGED <<inputs, weights, result, scores, events, log, failures, unusual>>

\* keypoint_optimize, lines 130-131.  The weights are an argument of the call
\* that nothing reads before line 130, so the vector is drawn here.  A vector
\* of the wrong length makes dot raise ValueError; the division by a zero sum
\* raises nothing.
KeypointOptimize ==
    /\ pc = "dot"
    /\ \E w \in WeightVectors(Len(keyspots)) :
          /\ weights' = w
          /\ IF Len(w) # Len(keyspots)
             THEN /\ error' = "ValueError(shapes)"
                  /\ outcome' = "raised"
                  /\ UNCHANGED scores
             ELSE /\ scores' = [a \in 1..Len(options) |-> Score(distances[a], w)]
                  /\ outcome' = "returned"
                  /\ UNCHANGED error
    /\ pc' = "scored"
    /\ UNCHANGED <<inputs, wrapperVars, ti, tj, ret, result, distances,
                   events, log, failures, unusual>>

Next ==
    \/ LoadPairwiseDistances
    \/ GetResponse
    \/ ParseResponse
    \/ TransitDistance
    \/ AssignCell
    \/ KeypointOptimize

Spec == Init /\ [][Next]_vars

\* The acquisition alone: load_pairwise_distances called with the options,
\* the keyspots and the mode, up to its return or its exception.
NextLoad ==
    \/ LoadPairwiseDistances
    \/ GetResponse
    \/ ParseResponse
    \/ TransitDistance
    \/ AssignCell

SpecLoad == Init /\ [][NextLoad]_vars

----------------------------------------------------------------------------
\* The scoring alone: keypoint_optimize at line 130, after a batched request
\* that the provider answered at once with a well-formed body carrying any
\* durations.

Dur == {900, 3600}

Body(d) ==
    [hasRows |-> TRUE,
     rows |-> [a \in 1..Len(d) |->
                [hasElements |-> TRUE,
                 elements |-> [b \in 1..Len(d[a]) |-> El("num", d[a][b])]]]]

InitScore ==
    /\ \E m \in 1..MaxM, n \in 1..MaxN :
          /\ m * n <= MaxCells
          /\ options = [a \in 1..m |-> a]
          /\ keyspots = [b \in 1..n |-> b]
    /\ mode = "driving"
    /\ verbose \in BOOLEAN
    /\ weights = <<>>
    /\ pc = "dot"
    /\ i = 0
    /\ tries = 0
    /\ warned = 0
    /\ sleeps = <<>>
    /\ errs = <<>>
    /\ ti = 1
    /\ tj = 1
    /\ ret = NoRet
    /\ distances \in [1..Len(options) -> [1..Len(keyspots) -> Dur]]
    /\ result = Body(distances)
    /\ scores = <<>>
    /\ outcome = "running"
    /\ error = "none"
    /\ events = AttemptEvents(<<0, 0>>, TRUE, 0)
    /\ log = InfoEmitted
    /\ failures = 0
    /\ unusual = 0

NextScore == KeypointOptimize

SpecScore == InitScore /\ [][NextScore]_vars

----------------------------------------------------------------------------
\* What the properties below read off a state.

M == Len(options)
N == Len(keyspots)

Idx(type) == {k \in DOMAIN events : events[k].type = type}

SendsOf(req) == Cardinality({k \in Idx("send") : events[k].req = req})

WarnsOf(req) == Cardinality({k \in Idx("warn") : events[k].req = req})

FailedRecvs == {k \in Idx("recv") : ~events[k].ok}

CurrentReq == IF mode = "transit" THEN <<ti, tj>> ELSE <<0, 0>>

LastEvent == events[Len(events)]

\* the retries of the current request are exhausted
Exhausted == pc = "aborted" /\ tries > 0

\* the body has M rows of N elements, each with a numeric duration value
IsWellFormed(res) ==
    /\ res.hasRows
    /\ Len(res.rows) = M
    /\ \A a \in 1..M :
          /\ res.rows[a].hasElements
          /\ Len(res.rows[a].elements) = N
          /\ \A b \in 1..N : res.rows[a].elements[b].kind = "num"

\* a decoded body has been received by the batched strategy
Decoded == mode # "transit" /\ \E k \in Idx("recv") : events[k].ok

RECURSIVE Sigma(_, _)
Sigma(f, S) ==
    IF S = {} THEN 0
    ELSE LET x == CHOOSE y \in S : TRUE IN f[x] + Sigma(f, S \ {x})

\* what a response of unexpected shape raises
ShapeErrors == {"KeyError", "IndexError", "ValueError(convert)"}

----------------------------------------------------------------------------
\* C1: a retry-wrapped request is attempted at most RetryTimes (3) times; when
\* the wrapper returns, the attempt that succeeded is the first success, it is
\* the k-th attempt and exactly k-1 warnings were recorded; when all
\* RetryTimes attempts fail, the error of the last one ends the run, after
\* RetryTimes-1 warnings and with no further attempt.
C1_RetryContract ==
    /\ tries <= RetryTimes
    /\ LET sent == Idx("send")
       IN  \A r \in {events[k].req : k \in sent} :
              Cardinality({k \in sent : events[k].req = r}) <= RetryTimes
    /\ pc \in {"parse", "assign"} =>
          /\ tries = Len(errs) + 1
          /\ warned = tries - 1
          /\ WarnsOf(CurrentReq) = tries - 1
          /\ SendsOf(CurrentReq) = tries
          /\ LastEvent.type = "recv" /\ LastEvent.ok
    /\ Len(errs) >= RetryTimes =>
          /\ Exhausted
          /\ outcome = "raised"
          /\ tries = RetryTimes
          /\ error = errs[RetryTimes]
          /\ warned = RetryTimes - 1
          /\ WarnsOf(CurrentReq) = RetryTimes - 1
          /\ SendsOf(CurrentReq) = RetryTimes
          /\ LastEvent.type = "recv" /\ ~LastEvent.ok
    /\ Exhausted => Len(errs) = RetryTimes

\* fail, fail, succeed: the wrapper has returned from its third attempt
C1_Witness ==
    /\ pc \in {"parse", "assign"}
    /\ tries = 3
    /\ Len(errs) = 2
    /\ warned = 2

\* C2: in a non-transit mode, when the first request is answered with a
\* well-formed body of M rows by N elements, exactly one request is sent and
\* the matrix returned holds at [a][b] the duration value of element b of
\* row a of the body.
C2_BatchedOneRequest ==
    ( /\ mode # "transit"
      /\ Len(events) >= 3
      /\ events[3].type = "recv" /\ events[3].ok
      /\ IsWellFormed(result)
      /\ pc # "parse" )
    => /\ pc \in {"dot", "scored"}
       /\ Cardinality(Idx("send")) = 1
       /\ DOMAIN distances = 1..M
       /\ \A a \in 1..M :
             /\ DOMAIN distances[a] = 1..N
             /\ \A b \in 1..N :
                   distances[a][b] = result.rows[a].elements[b].value

\* a 2 x 2 well-formed body, parsed into the matrix
C2_Witness ==
    /\ mode = "driving"
    /\ pc = "dot"
    /\ M = 2 /\ N = 2
    /\ Len(events) = 3
    /\ IsWellFormed(result)
    /\ distances[2][1] = TravelSeconds(2, 1)

\* C3: in transit mode, as long as every request succeeds at its first
\* attempt, the q-th request is the one for the q-th pair in row-major order
\* and is answered before the next one is sent; once the matrix is complete,
\* exactly M*N requests were sent and the cell [a][b] holds the duration the
\* request for (a, b) returned.
C3_TransitRowMajor ==
    (mode = "transit" /\ failures = 0) =>
       /\ Len(events) % 3 = 0
       /\ \A q \in 0..((Len(events) \div 3) - 1) :
             LET req == <<(q \div N) + 1, (q % N) + 1>>
             IN  /\ events[3 * q + 1].type = "info"
                 /\ events[3 * q + 1].req = req
                 /\ events[3 * q + 2].type = "send"
                 /\ events[3 * q + 2].req = req
                 /\ events[3 * q + 3].type = "recv"
                 /\ events[3 * q + 3].req = req
                 /\ events[3 * q + 3].ok
       /\ pc \in {"dot", "scored"} =>
             /\ Cardinality(Idx("send")) = M * N
             /\ \A a \in 1..M, b \in 1..N :
                   /\ SendsOf(<<a, b>>) = 1
                   /\ distances[a][b] = events[3 * ((a - 1) * N + (b - 1)) + 3].val

\* a 2 x 2 transit matrix completed with four requests
C3_Witness ==
    /\ mode = "transit"
    /\ failures = 0
    /\ pc = "dot"
    /\ M = 2 /\ N = 2
    /\ Cardinality(Idx("send")) = 4
    /\ distances[2][1] = TravelSeconds(2, 1)

\* C4: with weights of positive sum, the score of option a times 3600 times
\* the sum of the weights is the sum over b of distances[a][b] * weights[b];
\* with one nonzero weight k the score is distances[a][k] / 3600; with equal
\* weights it is the mean of row a divided by 3600.
C4_ScoreFormula ==
    (outcome = "returned" /\ Sigma(weights, DOMAIN weights) > 0) =>
       \A a \in 1..M :
          LET sc == scores[a]
              wsum == Sigma(weights, 1..N)
              weighted == Sigma([b \in 1..N |-> distances[a][b] * weights[b]], 1..N)
              rowsum == Sigma(distances[a], 1..N)
          IN  /\ DOMAIN scores = 1..M
              /\ sc.den > 0
              /\ sc.num * 3600 * wsum = weighted * sc.den
              /\ \A k \in 1..N :
                    (\A b \in (1..N) \ {k} : weights[b] = 0)
                       => sc.num * 3600 = distances[a][k] * sc.den
              /\ (\A b \in 1..N : weights[b] = weights[1])
                       => sc.num * 3600 * N = rowsum * sc.den

\* two options scored with the unequal weights 2 and 1
C4_Witness ==
    /\ outcome = "returned"
    /\ M = 2
    /\ weights = <<2, 1>>
    /\ distances[1] = <<3600, 900>>

\* C5: when the weight vector's length differs from the number of
\* destinations, or the weights sum to zero, scoring fails and no score is
\* computed or returned for any option.
C5_InvalidWeightsFail ==
    (pc = "scored" /\ (Len(weights) # N \/ Sigma(weights, DOMAIN weights) = 0))
    => /\ outcome = "raised"
       /\ scores = <<>>

\* C6: in the batched strategy, a decoded body that has not the expected
\* shape (M rows of N elements with numeric durations) ends the run in a
\* failure after the body is printed; no matrix is returned.
C6_MalformedBodyFails ==
    (Decoded /\ pc # "parse" /\ ~IsWellFormed(result))
    => /\ pc = "aborted"
       /\ outcome = "raised"
       /\ LastEvent.type = "pprint"
       /\ distances = <<>>

\* C7: no partial output: a run that returns a mapping (here: for weights of
\* positive sum, the case apart from C5) returns a score for
\* every option, each computed from a complete row of N durations the
\* provider supplied; once the retries of a request are exhausted no further
\* request is sent and neither a matrix nor a score is produced.
C7_NoPartialOutput ==
    /\ (outcome = "returned" /\ Sigma(weights, DOMAIN weights) > 0) =>
          /\ DOMAIN scores = 1..M
          /\ \A a \in 1..M, b \in 1..N :
                IF mode = "transit"
                THEN \E k \in Idx("recv") :
                        /\ events[k].req = <<a, b>>
                        /\ events[k].ok
                        /\ events[k].val = distances[a][b]
                ELSE /\ result.hasRows
                     /\ a <= Len(result.rows)
                     /\ b <= Len(result.rows[a].elements)
                     /\ result.rows[a].elements[b].kind = "num"
                     /\ result.rows[a].elements[b].value = distances[a][b]
    /\ Exhausted =>
          /\ LastEvent.type = "recv" /\ ~LastEvent.ok
          /\ outcome = "raised"
          /\ scores = <<>>

\* C8: in both strategies the retries cover a response of unexpected shape
\* as they cover a transport failure: it counts as a failed attempt and the
\* request is sent again, so a run that ends with a shape error has sent the
\* request RetryTimes times.
C8_ShapeErrorRetried ==
    (pc = "aborted" /\ error \in ShapeErrors) => SendsOf(CurrentReq) = RetryTimes

\* C9: the sleep after the failure of attempt index k (from 0) is at most
\* RetrySleep * 2^k: at most 2, then at most 4, at most 6 per request; the
\* attempt index counts the failures of the current request only, whatever
\* failed on earlier requests, and a request is given up only after its own
\* RetryTimes attempts.
C9_BackoffBounded ==
    /\ Len(sleeps) <= RetryTimes - 1
    /\ \A k \in DOMAIN sleeps : sleeps[k] <= RetrySleep * (2 ^ (k - 1))
    /\ Len(sleeps) >= 1 => sleeps[1] <= 2
    /\ Len(sleeps) >= 2 => sleeps[2] <= 4
    /\ Sigma(sleeps, DOMAIN sleeps) <= 6
    /\ pc \in {"get_response", "transit_distance"} =>
          /\ i = SendsOf(CurrentReq)
          /\ i = Len(sleeps)
          /\ i = WarnsOf(CurrentReq)
    /\ Exhausted => SendsOf(CurrentReq) = RetryTimes

\* a later transit pair backs off by the full 2 and 4 after an earlier pair failed
C9_Witness ==
    /\ mode = "transit"
    /\ <<ti, tj>> # <<1, 1>>
    /\ failures > Len(errs)
    /\ sleeps = <<2, 4>>
    /\ pc = "transit_distance"

IsWarn(e) == e.type = "warn"

IsLoggerCall(e) == e.type \in {"info", "warn"}

Level(e) == IF e.type = "warn" THEN "WARNING" ELSE "INFO"

\* the levels of the records the logger emits when it emits those of `calls`
Levels(calls) == [k \in 1..Len(calls) |-> Level(calls[k])]

\* the order of the requests, the logger calls and the sleeps
RequestProtocol ==
    /\ \A k \in DOMAIN events :
          LET e == events[k]
          IN  /\ e.type = "send" =>
                    /\ k > 1
                    /\ events[k - 1].type = "info"
                    /\ events[k - 1].req = e.req
              /\ e.type = "info" =>
                    /\ k < Len(events)
                    /\ events[k + 1].type = "send"
              /\ e.type = "warn" =>
                    /\ k > 1
                    /\ events[k - 1].type = "recv"
                    /\ ~events[k - 1].ok
                    /\ k < Len(events)
                    /\ events[k + 1].type = "sleep"
              /\ e.type = "sleep" =>
                    /\ k > 1
                    /\ events[k - 1].type = "warn"
                    /\ k < Len(events) =>
                          /\ events[k + 1].type = "info"
                          /\ events[k + 1].req = e.req
    /\ LET failed == FailedRecvs
           sent == Idx("send")
           warns == Cardinality(Idx("warn"))
       IN  /\ warns = Cardinality({k \in failed : k < Len(events)})
           /\ pc \in {"dot", "scored", "aborted"} =>
                 warns = Cardinality({k \in failed :
                    \E l \in sent : l > k /\ events[l].req = events[k].req})

\* C10 as stated: in every execution each request attempt has one info record
\* emitted before the request is sent, each retried failure one warning
\* record emitted before the sleep.
C10_EveryAttemptEmitsInfo ==
    /\ RequestProtocol
    /\ log = Levels(SelectSeq(events, IsLoggerCall))

\* C10 amended: each request attempt hands one info record to the request
\* logger before the request is sent, and the record is emitted only in a
\* verbose run; each failure that is retried is logged as one warning record,
\* emitted in every run, after the failed attempt and before the sleep,
\* which precedes the next attempt; the warnings are as many as the failed
\* attempts that were followed by a retry.
C10_LogProtocol ==
    /\ RequestProtocol
    /\ log = IF verbose
             THEN Levels(SelectSeq(events, IsLoggerCall))
             ELSE Levels(SelectSeq(events, IsWarn))

\* a run that is not verbose retried once: one warning emitted, no info
C10_Witness ==
    /\ ~verbose
    /\ Cardinality(Idx("send")) = 2
    /\ Cardinality(Idx("warn")) = 1
    /\ log = <<"WARNING">>

====
